---- MODULE Spec2Model ----
(***************************************************************************)
(* Batch job lifecycle and result reconciliation of agri_data_gen:         *)
(*   core/knowledge/validate_bundles.py   (BatchValidator)                 *)
(*   gemini_batch_processing/create_job.py (TextBatchJob)                  *)
(*   cli/main.py                           (check_batch)                   *)
(*                                                                         *)
(* JSON values are tagged records [t, v]; a JSON object is a function from *)
(* its keys to JSON values; a line of a file is [kind, fmt, obj], where    *)
(* fmt is the spelling of the text (json.dumps's own, or another one) and  *)
(* obj is what json.loads makes of it.  A file is read lazily: its number  *)
(* of lines is fixed when it is opened and each line is drawn when the     *)
(* loop reads it, unless the specification fixes its text (rawText.known,  *)
(* inputFile.known).                                                       *)
(***************************************************************************)
EXTENDS Integers, Sequences, FiniteSets, TLC

\* ------------------------------------------------------------------ bounds
MaxResultLines == 2   \* lines of the raw results file
MaxRecords == 2       \* lines of the input bundles file
MaxPolls == 3         \* status queries answered with a state that is not terminal
MaxQueries == MaxPolls + 2
MaxChunk == 2         \* the largest chunk_size a caller passes, the default aside
MaxClock == 2         \* seconds the clock runs through
MaxBundles == 3       \* lines of the input file a request builder reads

\* -------------------------------------------------------------- JSON values
JInt(n) == [t |-> "int", v |-> n]
JStr(s) == [t |-> "str", v |-> s]
JTrue == [t |-> "bool", v |-> 1]
JOne == [t |-> "float", v |-> 1]     \* 1.0
JNull == [t |-> "null", v |-> 0]
JNested == [t |-> "object", v |-> 0]  \* a nested object

EmptyObj == [k \in {} |-> JNull]

\* Python's str() on the values an id takes.
IntStr(n) == CASE n = 0 -> "0" [] n = 1 -> "1" [] n = 2 -> "2" [] n = 3 -> "3"
PyStr(x) == IF x.t = "str" THEN x.v ELSE IntStr(x.v)

\* Python's x == 1: the int 1, True (bool is an int) and 1.0; no str, no None.
PyEq1(x) == x.t \in {"int", "bool", "float"} /\ x.v = 1

\* d[k] = v on a dict.
DictSet(d, k, v) == [f \in DOMAIN d \cup {k} |-> IF f = k THEN v ELSE d[f]]

\* json.loads of a line of text, and json.dumps of an object.
json_loads(line) == line.obj
json_dumps(kind, obj) == [kind |-> kind, fmt |-> "dumps", obj |-> obj]

\* ------------------------------------------------------------- input domain
Keys == {"1", "2"}
Verdicts == {JInt(1), JInt(0), JTrue, JOne, JStr("1"), JNull, JNested}
Decisions == UNION {[D -> Verdicts] : D \in SUBSET Keys}
MalformedKinds == {"not_json", "no_response", "text_not_json", "text_not_object"}
ResultLines ==
    {[kind |-> k, fmt |-> "provider", obj |-> EmptyObj] : k \in MalformedKinds}
    \cup {[kind |-> "ok", fmt |-> "provider", obj |-> d] : d \in Decisions}

RecordIds == {JInt(1), JStr("1"), JStr("2")}
Bundle(id, tagged) ==
    IF tagged
    THEN [f \in {"id", "crop", "validation_status"} |->
             IF f = "id" THEN id
             ELSE IF f = "crop" THEN JStr("wheat") ELSE JStr("OLD")]
    ELSE [f \in {"id", "crop"} |-> IF f = "id" THEN id ELSE JStr("wheat")]
BlankLine == [kind |-> "blank", fmt |-> "blank", obj |-> EmptyObj]
RecordLines ==
    {[kind |-> "record", fmt |-> f, obj |-> Bundle(id, tagged)] :
        f \in {"dumps", "spaced"}, id \in RecordIds, tagged \in BOOLEAN}
GarbageLine == [kind |-> "not_json", fmt |-> "garbage", obj |-> EmptyObj]
InputLines == RecordLines \cup {BlankLine, GarbageLine}
NoLine == [kind |-> "none", fmt |-> "none", obj |-> EmptyObj]
StaleLine == [kind |-> "record", fmt |-> "dumps", obj |-> Bundle(JStr("old"), FALSE)]

\* The bundles create_jsonl is given: with a bundle_id, or without one.
BundleIds == {JStr("b1"), JStr("b2"), JStr("req_1")}
JobBundle(has, bid) ==
    IF has
    THEN [f \in {"bundle_id", "crop"} |-> IF f = "bundle_id" THEN bid ELSE JStr("wheat")]
    ELSE [f \in {"crop"} |-> JStr("wheat")]
JobLines ==
    {[kind |-> "record", fmt |-> "dumps", obj |-> JobBundle(TRUE, bid)] : bid \in BundleIds}
    \cup {[kind |-> "record", fmt |-> "dumps", obj |-> JobBundle(FALSE, JNull)]}
    \cup {BlankLine, GarbageLine}

\* A file whose text is known is [known |-> TRUE, lines |-> its lines]; Unread
\* is a file nothing has fixed the text of: its lines are drawn as they are read.
Unread == [known |-> FALSE, lines |-> <<>>]
FilesOver(S) ==
    {[known |-> TRUE, lines |-> ls] : ls \in UNION {[1..n -> S] : n \in 0..MaxBundles}}

\* The lines create_batch_file is given.
BuildLines ==
    {[kind |-> "record", fmt |-> "dumps", obj |-> Bundle(id, FALSE)] : id \in RecordIds}
    \cup {BlankLine, GarbageLine}

\* The bytes a download can hand back, by name.
Blobs == {"results_a", "results_b"}

\* The default of create_batch_file's chunk_size.
DefaultChunk == 50

VARIABLES
    pc,              \* control point of the running method
    todo,            \* the calls the entry point has still to make, in order
    calls,           \* the methods the entry point has called, in order
    ret,             \* what each method returned ("unset" before it returns)
    \* ---- files
    inputExists,     \* whether input_path exists
    requestFile,     \* batch_request_file: "absent" or "written"
    rawFile,         \* the job's raw results file: "absent", "written" (by an
                     \* earlier run) or the name of the bytes this run wrote
    rawText,         \* the lines of the raw results file, when they are known
    \* ---- the provider, and what the client did to it
    svc,             \* the job's state at the provider ("none": no job yet)
    uploads,         \* files.upload calls that returned: the files the provider holds
    queries,         \* batches.get calls
    downloads,       \* files.download calls
    observed,        \* the state name the latest batches.get returned
    seenInProgress,  \* status queries answered with a state that is not terminal
    seenTerminal,    \* whether a status query has returned a terminal state
    lateQueries,     \* status queries issued after one had returned a terminal state
    uploadCalls,     \* files.upload calls made, failed ones included
    createCalls,     \* batches.create calls made, failed ones included
    downloaded,      \* the bytes the latest files.download returned ("none" before)
    \* ---- the request builders
    inputFile,       \* the input bundles file
    chunk_size,      \* create_batch_file's argument
    index,           \* the position of the loop that runs (enumerate's index, range's i)
    all_bundles,     \* create_batch_file's list of loaded bundles
    requests,        \* the request file of the job, as a sequence of request entries
    request_count,   \* create_jsonl's counter
    emitted,         \* the custom_ids of each finished create_jsonl run, run by run
    \* ---- job objects
    clock,           \* int(time.time())
    job_id,          \* the job_id of the object whose methods run
    made,            \* the job object each of two independent processes has constructed
    \* ---- parse_and_split
    line,            \* the loop variable of both loops
    rawLeft,         \* lines of the raw results file not yet read
    inLeft,          \* lines of the input file not yet read
    inputRead,       \* the input lines the merge loop has read, in order
    validation_map,  \* id (str) -> decision payload
    valid_out,       \* valid_output, as a sequence of lines
    invalid_out,     \* invalid_output, as a sequence of lines
    valid_cnt,
    invalid_cnt,
    summary          \* the counts printed at the end of the pass

fileVars == <<inputExists, requestFile, rawFile>>
jobVars == <<svc, uploads, queries, downloads, observed, seenInProgress,
             seenTerminal, lateQueries, uploadCalls, createCalls, downloaded>>
outVars == <<valid_out, invalid_out, valid_cnt, invalid_cnt>>
reconVars == <<line, rawLeft, inLeft, inputRead, validation_map, outVars, summary>>
buildVars == <<inputFile, chunk_size, index, all_bundles, requests, request_count, emitted>>
procVars == <<clock, job_id, made>>
vars == <<pc, todo, calls, buildVars, procVars, ret, fileVars, rawText, jobVars, reconVars>>

Methods == {"create_batch_file", "submit_and_wait", "parse_and_split",
            "TextBatchJob", "create_jsonl", "submit_job",
            "wait_for_completion", "download_and_parse_results"}
NoRet == [m \in Methods |-> "unset"]
NoSummary == [valid |-> -1, invalid |-> -1]

\* ================================================================ entry points
Entry(m) ==
    CASE m = "create_batch_file" -> "cb_start"
      [] m = "TextBatchJob" -> "tj_init"
      [] m = "create_jsonl" -> "cj_open"
      [] m = "submit_job" -> "sj_upload"
      [] m = "submit_and_wait" -> "sw_upload"
      [] m = "parse_and_split" -> "ps_open_raw"
      [] m = "wait_for_completion" -> "wf_poll"
      [] m = "download_and_parse_results" -> "dl_query"

\* Whether the entry point goes on to its next call after a method handed back
\* r: the callers ignore what the methods return.
GoesOn(r) == TRUE

\* The entry point's next statement: the next method is called.
CallNext ==
    /\ pc \in {"start", "returned"}
    /\ todo # <<>>
    /\ calls = <<>> \/ GoesOn(ret[calls[Len(calls)]])
    /\ pc' = Entry(Head(todo))
    /\ calls' = Append(calls, Head(todo))
    /\ todo' = Tail(todo)
    /\ UNCHANGED <<rawText, ret, fileVars, jobVars, reconVars, buildVars, procVars>>

Return(m, value) ==
    /\ pc' = "returned"
    /\ ret' = [ret EXCEPT ![m] = value]

Raise == pc' = "raised" /\ UNCHANGED ret

\* ============================================================ parse_and_split
\* Why a result line fails inside the try block ("ok": it does not).
LineError(l) ==
    CASE l.kind = "not_json" -> "JSONDecodeError"         \* json.loads(line)
      [] l.kind = "no_response" -> "KeyError"             \* resp['response'][...]
      [] l.kind = "text_not_json" -> "JSONDecodeError"    \* json.loads(candidates)
      [] l.kind = "text_not_object" -> "AttributeError"   \* .items()
      [] OTHER -> "ok"

\* Mutant: validation_map.setdefault(str(k), v).
UnpackKeepFirst(map, d) ==
    [k \in DOMAIN map \cup {PyStr(JStr(j)) : j \in DOMAIN d} |->
        IF k \in DOMAIN map THEN map[k] ELSE d[k]]

\* for k, v in chunk_decisions.items(): validation_map[str(k)] = v
Unpack(map, d) ==
    [k \in DOMAIN map \cup {PyStr(JStr(j)) : j \in DOMAIN d} |->
        IF k \in DOMAIN d THEN d[k] ELSE map[k]]

\* Mutant: except json.JSONDecodeError, as create_jsonl has it.
CaughtJSONOnly(err) == err = "JSONDecodeError"

\* except Exception: every error a line can raise is caught and logged.
Caught(err) == TRUE

\* One pass of the parse loop's body, try and except together.
ParseStep(map, l) ==
    IF LineError(l) = "ok" THEN Unpack(map, json_loads(l)) ELSE map

\* Mutant: validation_map.get(b_id, 1).
IsValidDefaultAccept(map, b_id) == IF b_id \in DOMAIN map THEN map[b_id] ELSE JInt(1)

\* is_valid = validation_map.get(b_id, 0)
IsValid(map, b_id) == IF b_id \in DOMAIN map THEN map[b_id] ELSE JInt(0)

\* Mutant: if is_valid (truthiness: a non-empty string passes too).
AcceptsTruthy(is_valid) == PyEq1(is_valid) \/ is_valid.t = "str"

\* if is_valid == 1
Accepts(is_valid) == PyEq1(is_valid)

\* Mutant: the two tags swapped.
StatusTagSwapped(map, b_id) ==
    IF b_id \notin DOMAIN map THEN "LLM_REJECTED" ELSE "LLM_MISSED"

\* the tag of a record that is not accepted
StatusTag(map, b_id) ==
    IF b_id \notin DOMAIN map THEN "LLM_MISSED" ELSE "LLM_REJECTED"

\* Mutant: valid_out.write(json.dumps(bundle) + "\n").
AcceptedLineRedumped(l, bundle) == json_dumps("record", bundle)

\* valid_out.write(line)
AcceptedLine(l, bundle) == l

\* bundle['validation_status'] = tag; json.dumps(bundle) + "\n"
RejectedLine(l, bundle, tag) ==
    json_dumps("record", DictSet(bundle, "validation_status", JStr(tag)))

\* Mutant: the two counts printed under each other's label.
SummarySwapped(valid, invalid) == [valid |-> invalid, invalid |-> valid]

\* The two counts the pass prints: "Valid Scenarios" and "Invalid Scenarios".
Summary(valid, invalid) == [valid |-> valid, invalid |-> invalid]

\* Mutant: the line is put at the head of the file.
WriteAtHead(stream, l) == <<l>> \o stream

\* f.write(line) on a stream opened for writing: the line goes to its end
Write(stream, l) == Append(stream, l)

\* Mutant: open(..., 'a').
OpenForAppend(old) == old

\* open(..., 'w') of an output file
OpenForWrite(old) == <<>>

OpenRaw ==
    /\ pc = "ps_open_raw"
    /\ IF rawFile = "absent"
       THEN /\ Raise                           \* FileNotFoundError
            /\ UNCHANGED <<rawLeft, validation_map>>
       ELSE /\ pc' = "ps_parse"
            /\ validation_map' = EmptyObj
            /\ rawLeft' \in (IF rawText.known THEN {Len(rawText.lines)}
                             ELSE 0..MaxResultLines)
            /\ UNCHANGED ret
    /\ UNCHANGED <<rawText, todo, calls, buildVars, procVars, fileVars, jobVars, line,
                   inLeft, inputRead, outVars, summary>>

ParseLine ==
    /\ pc = "ps_parse"
    /\ rawLeft > 0
    /\ \E l \in (IF rawText.known
                THEN {rawText.lines[Len(rawText.lines) - rawLeft + 1]}
                ELSE ResultLines) :
          /\ line' = l
          /\ IF LineError(l) # "ok" /\ ~Caught(LineError(l))
             THEN pc' = "raised" /\ UNCHANGED validation_map
             ELSE pc' = pc /\ validation_map' = ParseStep(validation_map, l)
    /\ rawLeft' = rawLeft - 1
    /\ UNCHANGED <<rawText, todo, calls, buildVars, procVars, ret, fileVars, jobVars,
                   inLeft, inputRead, outVars, summary>>

ParseEnd ==
    /\ pc = "ps_parse"
    /\ rawLeft = 0
    /\ pc' = "ps_open_io"
    /\ valid_cnt' = 0
    /\ invalid_cnt' = 0
    /\ UNCHANGED <<rawText, todo, calls, buildVars, procVars, ret, fileVars, jobVars,
                   line, rawLeft, inLeft, inputRead, validation_map, valid_out,
                   invalid_out, summary>>

OpenStreams ==
    /\ pc = "ps_open_io"
    /\ IF ~inputExists
       THEN /\ Raise                           \* FileNotFoundError on input_path
            /\ UNCHANGED <<inLeft, inputRead, valid_out, invalid_out>>
       ELSE /\ pc' = "ps_merge"
            /\ inLeft' \in (IF inputFile.known THEN {Len(inputFile.lines)}
                            ELSE 0..MaxRecords)
            /\ inputRead' = <<>>
            /\ valid_out' = OpenForWrite(valid_out)
            /\ invalid_out' = OpenForWrite(invalid_out)
            /\ UNCHANGED ret
    /\ UNCHANGED <<rawText, todo, calls, buildVars, procVars, fileVars, jobVars, line,
                   rawLeft, validation_map, valid_cnt, invalid_cnt, summary>>

MergeLine ==
    /\ pc = "ps_merge"
    /\ inLeft > 0
    /\ \E l \in (IF inputFile.known THEN {inputFile.lines[Len(inputRead) + 1]}
                ELSE InputLines) :
          /\ line' = l
          /\ inputRead' = Append(inputRead, l)
          /\ IF l.kind # "record"
             THEN /\ pc' = "raised"            \* json.loads(line): JSONDecodeError
                  /\ UNCHANGED outVars
             ELSE LET bundle == json_loads(l)
                      b_id == PyStr(bundle["id"])
                      is_valid == IsValid(validation_map, b_id)
                  IN  /\ pc' = pc
                      /\ IF Accepts(is_valid)
                         THEN /\ valid_out' = Write(valid_out, AcceptedLine(l, bundle))
                              /\ valid_cnt' = valid_cnt + 1
                              /\ UNCHANGED <<invalid_out, invalid_cnt>>
                         ELSE /\ invalid_out' =
                                    Write(invalid_out,
                                          RejectedLine(l, bundle,
                                                       StatusTag(validation_map, b_id)))
                              /\ invalid_cnt' = invalid_cnt + 1
                              /\ UNCHANGED <<valid_out, valid_cnt>>
    /\ inLeft' = inLeft - 1
    /\ UNCHANGED <<rawText, todo, calls, buildVars, procVars, ret, fileVars, jobVars,
                   rawLeft, validation_map, summary>>

MergeEnd ==
    /\ pc = "ps_merge"
    /\ inLeft = 0
    /\ summary' = Summary(valid_cnt, invalid_cnt)
    /\ Return("parse_and_split", "None")
    /\ UNCHANGED <<rawText, todo, calls, buildVars, procVars, fileVars, jobVars, line,
                   rawLeft, inLeft, inputRead, validation_map, outVars>>

ParseAndSplit == OpenRaw \/ ParseLine \/ ParseEnd \/ OpenStreams \/ MergeLine \/ MergeEnd

\* ========================================================== the provider's job
InProgress == {"JOB_STATE_PENDING", "JOB_STATE_RUNNING", "JOB_STATE_OTHER"}
Terminal == {"JOB_STATE_SUCCEEDED", "JOB_STATE_FAILED", "JOB_STATE_CANCELLED"}
JobStates == InProgress \cup Terminal

\* The provider moves the job on; the client only observes it.  A job never
\* goes back to PENDING and never leaves a terminal state.  JOB_STATE_OTHER
\* stands for any state name the client does not compare with.
SvcAdvance ==
    /\ svc \in InProgress
    /\ svc' \in (JobStates \ {svc, "JOB_STATE_PENDING"})
    /\ UNCHANGED <<rawText, pc, todo, calls, buildVars, procVars, ret, fileVars,
                   reconVars, uploads, queries, downloads, observed, seenInProgress,
                   seenTerminal, lateQueries, uploadCalls, createCalls, downloaded>>

\* batches.get(name=...): one status query and what it tells the client.
CanQuery == (svc \in Terminal \/ seenInProgress < MaxPolls) /\ queries < MaxQueries
StatusQuery ==
    /\ queries' = queries + 1
    /\ observed' = svc
    /\ seenInProgress' = IF svc \in Terminal THEN seenInProgress ELSE seenInProgress + 1
    /\ seenTerminal' = (seenTerminal \/ svc \in Terminal)
    /\ lateQueries' = IF seenTerminal THEN lateQueries + 1 ELSE lateQueries
    /\ UNCHANGED <<rawText, svc, uploads, downloads, uploadCalls, createCalls,
                   downloaded>>

\* ============================================================= the job objects
\* f"{job_name}_{int(time.time())}"
JobId(job_name, t) == [name |-> job_name, t |-> t]
NoJobId == [name |-> "", t |-> 0]
Path(dir, id, file) == [dir |-> dir, id |-> id, file |-> file]

\* TextBatchJob.__init__: the job id, and the files the object writes.
TextJobInit(job_name, t) ==
    LET id == JobId(job_name, t)
    IN  [cls |-> "TextBatchJob", job_id |-> id,
         files |-> {Path("output", id, "batch_requests.jsonl"),
                    Path("output", id, "raw_results.jsonl")}]

\* BatchValidator.__init__: the two output paths carry no job id.
ValidatorInit(t) ==
    LET id == JobId("validation_batch", t)
    IN  [cls |-> "BatchValidator", job_id |-> id,
         files |-> {Path("data/bundles/classify", id, "requests.jsonl"),
                    Path("data/bundles/classify", id, "results.jsonl"),
                    Path("data/bundles/classify", NoJobId, "valid_bundles.jsonl"),
                    Path("data/bundles/classify", NoJobId, "invalid_bundles.jsonl")}]

JobNames == {"agri-advisory-job", "other-job"}
NoJob == [cls |-> "none", job_id |-> NoJobId, files |-> {}]

\* A second goes by.
Tick ==
    /\ clock < MaxClock
    /\ clock' = clock + 1
    /\ UNCHANGED <<rawText, pc, todo, calls, ret, fileVars, jobVars, reconVars,
                   buildVars, job_id, made>>

\* job = TextBatchJob() in the process whose methods run: a new object, whose
\* files are those of its own job id.
NewTextJob ==
    /\ pc = "tj_init"
    /\ job_id' = TextJobInit("agri-advisory-job", clock).job_id
    /\ requestFile' = (IF job_id' = job_id THEN requestFile ELSE "absent")
    /\ rawFile' = (IF job_id' = job_id THEN rawFile ELSE "absent")
    /\ requests' = (IF job_id' = job_id THEN requests ELSE <<>>)
    /\ Return("TextBatchJob", "object")
    /\ UNCHANGED <<rawText, todo, calls, inputExists, jobVars, reconVars, inputFile,
                   chunk_size, index, all_bundles, request_count, emitted, clock, made>>

\* One of two independent processes constructs its job object.
Construct(p) ==
    /\ made[p] = NoJob
    /\ \E job \in {TextJobInit(n, clock) : n \in JobNames} \cup {ValidatorInit(clock)} :
          made' = [made EXCEPT ![p] = job]
    /\ UNCHANGED <<rawText, pc, todo, calls, ret, fileVars, jobVars, reconVars,
                   buildVars, clock, job_id>>

\* ========================================================== create_batch_file
\* Mutant: all_bundles[i : i + chunk_size - 1].
ChunkShort(bundles, i, n) ==
    SubSeq(bundles, i + 1, IF i + n - 1 > Len(bundles) THEN Len(bundles) ELSE i + n - 1)

\* all_bundles[i : i + chunk_size]
Chunk(bundles, i, n) ==
    SubSeq(bundles, i + 1, IF i + n > Len(bundles) THEN Len(bundles) ELSE i + n)

\* f"chunk_{i}"
ChunkName(i) ==
    CASE i = 0 -> "chunk_0" [] i = 1 -> "chunk_1" [] i = 2 -> "chunk_2"
      [] i = 3 -> "chunk_3" [] i = 4 -> "chunk_4" [] OTHER -> "chunk_n"

\* The request entry of a chunk: its custom_id and, of the prompt, the id of
\* each scenario in the order of the chunk.
ChunkRequest(chunk, i) ==
    [custom_id |-> JStr(ChunkName(i)),
     body |-> [k \in 1..Len(chunk) |-> chunk[k]["id"]]]

\* if not os.path.exists(self.input_path): return False
CbOpen ==
    /\ pc = "cb_start"
    /\ IF ~inputExists
       THEN /\ Return("create_batch_file", "False")
            /\ UNCHANGED <<inputFile, index, all_bundles>>
       ELSE /\ pc' = "cb_read"
            /\ inputFile' \in (IF inputFile.known THEN {inputFile} ELSE FilesOver(BuildLines))
            /\ index' = 0
            /\ all_bundles' = <<>>
            /\ UNCHANGED ret
    /\ UNCHANGED <<rawText, todo, calls, fileVars, jobVars, reconVars, procVars,
                   chunk_size, requests, request_count, emitted>>

\* for line in f: if line.strip(): all_bundles.append(json.loads(line))
CbReadLine ==
    /\ pc = "cb_read"
    /\ index < Len(inputFile.lines)
    /\ LET l == inputFile.lines[index + 1]
       IN  CASE l.kind = "blank" -> pc' = pc /\ UNCHANGED all_bundles
             [] l.kind = "record" ->
                   pc' = pc /\ all_bundles' = Append(all_bundles, json_loads(l))
             [] OTHER -> pc' = "raised" /\ UNCHANGED all_bundles   \* JSONDecodeError
    /\ index' = index + 1
    /\ UNCHANGED <<rawText, todo, calls, ret, fileVars, jobVars, reconVars, procVars,
                   inputFile, chunk_size, requests, request_count, emitted>>

\* with open(self.batch_request_file, 'w')
CbOpenOut ==
    /\ pc = "cb_read"
    /\ index = Len(inputFile.lines)
    /\ pc' = "cb_write"
    /\ requestFile' = "written"
    /\ requests' = <<>>
    /\ index' = 0
    /\ UNCHANGED <<rawText, todo, calls, ret, inputExists, rawFile, jobVars, reconVars,
                   procVars, inputFile, chunk_size, all_bundles, request_count,
                   emitted>>

\* for i in range(0, len(all_bundles), chunk_size): one request entry is written
CbWriteChunk ==
    /\ pc = "cb_write"
    /\ index < Len(all_bundles)
    /\ requests' = Append(requests, ChunkRequest(Chunk(all_bundles, index, chunk_size), index))
    /\ index' = index + chunk_size
    /\ UNCHANGED <<rawText, pc, todo, calls, ret, fileVars, jobVars, reconVars,
                   procVars, inputFile, chunk_size, all_bundles, request_count,
                   emitted>>

\* return True: the list goes out of scope
CbReturn ==
    /\ pc = "cb_write"
    /\ index >= Len(all_bundles)
    /\ all_bundles' = <<>>
    /\ index' = 0
    /\ Return("create_batch_file", "True")
    /\ UNCHANGED <<rawText, todo, calls, fileVars, jobVars, reconVars, procVars,
                   inputFile, chunk_size, requests, request_count, emitted>>

CreateBatchFile == CbOpen \/ CbReadLine \/ CbOpenOut \/ CbWriteChunk \/ CbReturn

\* ================================================================ create_jsonl
\* f"req_{index}"
ReqName(i) ==
    CASE i = 0 -> "req_0" [] i = 1 -> "req_1" [] i = 2 -> "req_2"
      [] i = 3 -> "req_3" [] i = 4 -> "req_4" [] OTHER -> "req_n"

\* Mutant: the fallback counts the requests written, not the lines read.
CustomIdByCount(bundle, i) ==
    IF "bundle_id" \in DOMAIN bundle THEN bundle["bundle_id"]
    ELSE JStr(ReqName(request_count))

\* Mutant: the fallback counts on from the job's timestamp.
CustomIdByJob(bundle, i) ==
    IF "bundle_id" \in DOMAIN bundle THEN bundle["bundle_id"]
    ELSE JStr(ReqName(i + job_id.t))

\* bundle.get('bundle_id', f"req_{index}")
CustomId(bundle, i) ==
    IF "bundle_id" \in DOMAIN bundle THEN bundle["bundle_id"] ELSE JStr(ReqName(i))

\* The request entry of a bundle: its custom_id and, of the prompt, the bundle.
BundleRequest(bundle, i) == [custom_id |-> CustomId(bundle, i), body |-> <<bundle>>]

\* except json.JSONDecodeError
CjCaught(err) == err = "JSONDecodeError"

\* json.loads(line.strip()) of an input line: a blank line is no JSON either.
CjLineError(l) == IF l.kind = "record" THEN "ok" ELSE "JSONDecodeError"

\* with open(input_file_path, 'r') as infile, open(self.jsonl_path, 'w') as outfile
CjOpen ==
    /\ pc = "cj_open"
    /\ IF ~inputExists
       THEN /\ Raise                            \* FileNotFoundError
            /\ UNCHANGED <<requestFile, inputFile, index, requests, request_count>>
       ELSE /\ pc' = "cj_read"
            /\ inputFile' \in (IF inputFile.known THEN {inputFile} ELSE FilesOver(JobLines))
            /\ requestFile' = "written"
            /\ requests' = <<>>
            /\ request_count' = 0
            /\ index' = 0
            /\ UNCHANGED ret
    /\ UNCHANGED <<rawText, todo, calls, inputExists, rawFile, jobVars, reconVars,
                   procVars, chunk_size, all_bundles, emitted>>

\* for index, line in enumerate(infile): the body of the loop, try and except
CjReadLine ==
    /\ pc = "cj_read"
    /\ index < Len(inputFile.lines)
    /\ LET l == inputFile.lines[index + 1]
       IN  IF CjLineError(l) = "ok"
           THEN /\ requests' = Append(requests, BundleRequest(json_loads(l), index))
                /\ request_count' = request_count + 1
                /\ pc' = pc
           ELSE /\ pc' = (IF CjCaught(CjLineError(l)) THEN pc ELSE "raised")
                /\ UNCHANGED <<requests, request_count>>
    /\ index' = index + 1
    /\ UNCHANGED <<rawText, todo, calls, ret, fileVars, jobVars, reconVars, procVars,
                   inputFile, chunk_size, all_bundles, emitted>>

CustomIds(reqs) == [k \in 1..Len(reqs) |-> reqs[k].custom_id]

\* the end of the file: the count is logged and the method returns
CjReturn ==
    /\ pc = "cj_read"
    /\ index = Len(inputFile.lines)
    /\ emitted' = Append(emitted, CustomIds(requests))
    /\ index' = 0
    /\ Return("create_jsonl", "None")
    /\ UNCHANGED <<rawText, todo, calls, fileVars, jobVars, reconVars, procVars,
                   inputFile, chunk_size, all_bundles, requests, request_count>>

CreateJsonl == CjOpen \/ CjReadLine \/ CjReturn

\* ============================================================ submit_and_wait
\* Mutant: the call sits in a try whose except logs and goes on.
AfterCallSwallowed(ok, next) == next

\* Where control is after a provider call: the statement that follows it, or
\* the exception the call raised, which no handler of the method catches.
AfterCall(ok, next) == IF ok THEN next ELSE "raised"

\* files.upload of the request file: it raises when there is no file to send
\* or the call fails.
UploadCall(next) ==
    /\ uploadCalls' = uploadCalls + 1
    /\ \E sent \in BOOLEAN :
          LET ok == sent /\ requestFile = "written"
          IN  /\ uploads' = (IF ok THEN uploads + 1 ELSE uploads)
              /\ pc' = AfterCall(ok, next)
    /\ UNCHANGED <<rawText, todo, calls, buildVars, procVars, ret, fileVars, reconVars,
                   svc, queries, downloads, observed, seenInProgress, seenTerminal,
                   lateQueries, createCalls, downloaded>>

\* batches.create with the uploaded file's name as src
CreateCall(next) ==
    /\ createCalls' = createCalls + 1
    /\ \E created \in BOOLEAN :
          /\ svc' = (IF created THEN "JOB_STATE_PENDING" ELSE svc)
          /\ pc' = AfterCall(created, next)
    /\ UNCHANGED <<rawText, todo, calls, buildVars, procVars, ret, fileVars, reconVars,
                   uploads, queries, downloads, observed, seenInProgress, seenTerminal,
                   lateQueries, uploadCalls, downloaded>>

Upload == pc = "sw_upload" /\ UploadCall("sw_create")

CreateJob == pc = "sw_create" /\ CreateCall("sw_poll")

\* Mutant: the bytes are decoded and written as text.
WriteBytesAsText(content) == "recoded"

\* open(path, 'wb').write(content): the file holds the bytes it was given
WriteBytes(content) == content

\* Mutant: CANCELLED is not compared with, so the loop sleeps on it.
SwOutcomeNoCancelled(state) ==
    CASE state = "JOB_STATE_SUCCEEDED" -> "break"
      [] state = "JOB_STATE_FAILED" -> "return_false"
      [] OTHER -> "sleep"

\* What the loop does with the state name a query returned.
SwOutcome(state) ==
    CASE state = "JOB_STATE_SUCCEEDED" -> "break"
      [] state \in {"JOB_STATE_FAILED", "JOB_STATE_CANCELLED"} -> "return_false"
      [] OTHER -> "sleep"

SwQuery ==
    /\ pc = "sw_poll"
    /\ CanQuery
    /\ StatusQuery
    /\ CASE SwOutcome(svc) = "break" -> pc' = "sw_download" /\ UNCHANGED ret
         [] SwOutcome(svc) = "return_false" -> Return("submit_and_wait", "False")
         [] OTHER -> pc' = "sw_sleep" /\ UNCHANGED ret
    /\ UNCHANGED <<rawText, todo, calls, buildVars, procVars, fileVars, reconVars>>

\* time.sleep(60)
SwSleep ==
    /\ pc = "sw_sleep"
    /\ pc' = "sw_poll"
    /\ UNCHANGED <<rawText, todo, calls, buildVars, procVars, ret, fileVars, jobVars,
                   reconVars>>

\* files.download, and the bytes written to raw_results_file
SwDownload ==
    /\ pc = "sw_download"
    /\ downloads' = downloads + 1
    /\ \E content \in Blobs :
          /\ downloaded' = content
          /\ rawFile' = WriteBytes(content)
    /\ Return("submit_and_wait", "True")
    /\ UNCHANGED <<rawText, todo, calls, buildVars, procVars, inputExists, requestFile,
                   reconVars, svc, uploads, queries, observed, seenInProgress,
                   seenTerminal, lateQueries, uploadCalls, createCalls>>

SubmitAndWait == Upload \/ CreateJob \/ SwQuery \/ SwSleep \/ SwDownload

\* ================================================================ TextBatchJob
\* Mutant: the loop returns on SUCCEEDED and FAILED only.
WfReturnsNoCancelled(state) == state \in {"JOB_STATE_SUCCEEDED", "JOB_STATE_FAILED"}

\* if state in [SUCCEEDED, FAILED, CANCELLED]: return job_status
WfReturns(state) ==
    state \in {"JOB_STATE_SUCCEEDED", "JOB_STATE_FAILED", "JOB_STATE_CANCELLED"}

\* wait_for_completion: one turn of the loop.  What it returns is the job
\* status it got, written here as the state name it carries.
WfQuery ==
    /\ pc = "wf_poll"
    /\ CanQuery
    /\ StatusQuery
    /\ IF WfReturns(svc)
       THEN Return("wait_for_completion", svc)
       ELSE pc' = "wf_sleep" /\ UNCHANGED ret
    /\ UNCHANGED <<rawText, todo, calls, buildVars, procVars, fileVars, reconVars>>

WfSleep ==
    /\ pc = "wf_sleep"
    /\ pc' = "wf_poll"
    /\ UNCHANGED <<rawText, todo, calls, buildVars, procVars, ret, fileVars, jobVars,
                   reconVars>>

\* Mutant: the state is not looked at.
DlRefusesNever(state) == FALSE

\* if job.state.name != "JOB_STATE_SUCCEEDED": return
DlRefuses(state) == state # "JOB_STATE_SUCCEEDED"

\* download_and_parse_results: its own status query
DlQuery ==
    /\ pc = "dl_query"
    /\ queries < MaxQueries
    /\ StatusQuery
    /\ IF DlRefuses(svc)
       THEN Return("download_and_parse_results", "None")
       ELSE pc' = "dl_download" /\ UNCHANGED ret
    /\ UNCHANGED <<rawText, todo, calls, buildVars, procVars, fileVars, reconVars>>

\* files.download, the bytes written to raw_results.jsonl, return raw_path
DlDownload ==
    /\ pc = "dl_download"
    /\ downloads' = downloads + 1
    /\ \E content \in Blobs :
          /\ downloaded' = content
          /\ rawFile' = WriteBytes(content)
    /\ Return("download_and_parse_results", "raw_path")
    /\ UNCHANGED <<rawText, todo, calls, buildVars, procVars, inputExists, requestFile,
                   reconVars, svc, uploads, queries, observed, seenInProgress,
                   seenTerminal, lateQueries, uploadCalls, createCalls>>

WaitAndDownload == WfQuery \/ WfSleep \/ DlQuery \/ DlDownload

\* submit_job: files.upload of self.jsonl_path
SjUpload == pc = "sj_upload" /\ UploadCall("sj_create")

\* submit_job: batches.create; the job is kept as self.batch_job
SjCreate == pc = "sj_create" /\ CreateCall("sj_return")

\* return self.batch_job
SjReturn ==
    /\ pc = "sj_return"
    /\ Return("submit_job", "batch_job")
    /\ UNCHANGED <<rawText, todo, calls, buildVars, procVars, fileVars, jobVars,
                   reconVars>>

SubmitJob == SjUpload \/ SjCreate \/ SjReturn

\* ============================================================ specifications
NoCalls ==
    /\ uploads = 0 /\ queries = 0 /\ downloads = 0
    /\ observed = "none"
    /\ seenInProgress = 0 /\ seenTerminal = FALSE /\ lateQueries = 0
    /\ uploadCalls = 0 /\ createCalls = 0
    /\ downloaded = "none"

\* Nothing fixes the text of the raw results file: its lines are drawn as read.
RawUnread == rawText = Unread

\* No builder has run: the loops' variables are idle and nothing is emitted.
NoBuild ==
    /\ index = 0
    /\ all_bundles = <<>>
    /\ requests = <<>>
    /\ request_count = 0
    /\ emitted = <<>>

Procs == {1, 2}

\* The process whose methods run has constructed its object at second 0; the
\* two independent processes have constructed nothing.
OneObject(id) ==
    /\ clock = 0
    /\ job_id = id
    /\ made = [p \in Procs |-> NoJob]

FreshRecon ==
    /\ line = NoLine
    /\ rawLeft = 0 /\ inLeft = 0
    /\ inputRead = <<>>
    /\ validation_map = EmptyObj
    /\ valid_out \in {<<>>, <<StaleLine>>}     \* the output paths are shared by all runs
    /\ invalid_out = valid_out
    /\ valid_cnt = 0 /\ invalid_cnt = 0
    /\ summary = NoSummary

Program(ms) == pc = "start" /\ todo = ms /\ calls = <<>> /\ ret = NoRet

\* parse_and_split called on a validator whose raw results file is on disk.
InitReconcile ==
    /\ Program(<<"parse_and_split">>)
    /\ inputExists \in BOOLEAN
    /\ requestFile = "written"
    /\ rawFile = "written"
    /\ svc = "none"
    /\ NoCalls
    /\ RawUnread
    /\ FreshRecon
    /\ NoBuild
    /\ inputFile = Unread
    /\ chunk_size = DefaultChunk
    /\ OneObject(ValidatorInit(0).job_id)

NextReconcile == CallNext \/ ParseAndSplit

SpecReconcile == InitReconcile /\ [][NextReconcile]_vars

\* check_batch on a job the provider already has, and submit_and_wait on a
\* validator whose request file is written.
InitPoll ==
    /\ inputExists = TRUE
    /\ requestFile = "written"
    /\ rawFile = "absent"
    /\ NoCalls
    /\ RawUnread
    /\ FreshRecon
    /\ valid_out = <<>>
    /\ NoBuild
    /\ inputFile = Unread
    /\ chunk_size = DefaultChunk
    /\ \/ /\ Program(<<"submit_and_wait">>)
          /\ svc = "none"
          /\ OneObject(ValidatorInit(0).job_id)
       \/ /\ Program(<<"wait_for_completion", "download_and_parse_results">>)
          /\ svc \in JobStates
          /\ OneObject(TextJobInit("agri-advisory-job", 0).job_id)
       \/ /\ Program(<<"submit_job", "wait_for_completion", "download_and_parse_results">>)
          /\ svc = "none"
          /\ OneObject(TextJobInit("agri-advisory-job", 0).job_id)

NextPoll == CallNext \/ SvcAdvance \/ SubmitAndWait \/ SubmitJob \/ WaitAndDownload

SpecPoll == InitPoll /\ [][NextPoll]_vars

\* The client runs on: a sleep ends, a query is answered, the next call is made.
FairSpecPoll ==
    /\ SpecPoll
    /\ WF_vars(CallNext) /\ WF_vars(SubmitAndWait) /\ WF_vars(WaitAndDownload)

\* The input files the scripts are run on.
RunRecord(id, f) == [kind |-> "record", fmt |-> f, obj |-> Bundle(id, FALSE)]
RunFiles ==
    {[known |-> TRUE, lines |-> ls] :
        ls \in {<<>>,
                <<RunRecord(JInt(1), "dumps")>>,
                <<RunRecord(JInt(1), "spaced"), RunRecord(JStr("2"), "dumps")>>,
                <<RunRecord(JInt(1), "dumps"), BlankLine>>,
                <<GarbageLine>>}}
RunJobFiles ==
    {[known |-> TRUE, lines |-> ls] :
        ls \in {<<>>,
                <<[kind |-> "record", fmt |-> "dumps", obj |-> JobBundle(FALSE, JNull)]>>,
                <<GarbageLine,
                  [kind |-> "record", fmt |-> "dumps", obj |-> JobBundle(TRUE, JStr("b1"))]>>}}

\* validate_bundles.py and create_job.py, each run as a script.
InitRun ==
    /\ inputExists \in BOOLEAN
    /\ requestFile = "absent"
    /\ rawFile = "absent"
    /\ svc = "none"
    /\ NoCalls
    /\ RawUnread
    /\ FreshRecon
    /\ NoBuild
    /\ chunk_size = DefaultChunk
    /\ \/ /\ Program(<<"create_batch_file", "submit_and_wait", "parse_and_split">>)
          /\ inputFile \in RunFiles
          /\ OneObject(ValidatorInit(0).job_id)
       \/ /\ Program(<<"create_jsonl", "submit_job", "wait_for_completion",
                      "download_and_parse_results">>)
          /\ inputFile \in RunJobFiles
          /\ OneObject(TextJobInit("agri-advisory-job", 0).job_id)

NextRun ==
    \/ CallNext \/ SvcAdvance
    \/ CreateBatchFile \/ SubmitAndWait \/ ParseAndSplit
    \/ CreateJsonl \/ SubmitJob \/ WaitAndDownload

SpecRun == InitRun /\ [][NextRun]_vars

\* The request builders: create_jsonl run by a job object and then again by a
\* second one, and create_batch_file called with a chunk size.
InitBuild ==
    /\ inputExists \in BOOLEAN
    /\ requestFile = "absent"
    /\ rawFile = "absent"
    /\ svc = "none"
    /\ NoCalls
    /\ RawUnread
    /\ FreshRecon
    /\ valid_out = <<>>
    /\ NoBuild
    /\ \/ /\ Program(<<"create_jsonl", "TextBatchJob", "create_jsonl">>)
          /\ inputFile \in FilesOver(JobLines)
          /\ chunk_size = DefaultChunk
          /\ OneObject(TextJobInit("agri-advisory-job", 0).job_id)
       \/ /\ Program(<<"create_batch_file">>)
          /\ inputFile \in FilesOver(BuildLines)
          /\ chunk_size \in 1..MaxChunk \cup {DefaultChunk}
          /\ OneObject(ValidatorInit(0).job_id)

NextBuild == CallNext \/ Tick \/ NewTextJob \/ CreateJsonl \/ CreateBatchFile

SpecBuild == InitBuild /\ [][NextBuild]_vars

\* Two independent processes, each constructing one job object at some second.
InitJobs ==
    /\ Program(<<>>)
    /\ inputExists = TRUE
    /\ requestFile = "absent"
    /\ rawFile = "absent"
    /\ svc = "none"
    /\ NoCalls
    /\ RawUnread
    /\ FreshRecon
    /\ valid_out = <<>>
    /\ NoBuild
    /\ inputFile = Unread
    /\ chunk_size = DefaultChunk
    /\ OneObject(NoJobId)

NextJobs == Tick \/ \E p \in Procs : Construct(p)

SpecJobs == InitJobs /\ [][NextJobs]_vars

\* The reconciliation of records with ids "1", "2", "3" against raw results
\* files whose text is known: the verdicts of "1" and "3" in one line or in
\* two, in either order, set twice, beside a line that is skipped, or absent.
ScenarioLines ==
    {[kind |-> "record", fmt |-> "dumps", obj |-> Bundle(JStr(id), FALSE)] :
        id \in {"1", "2", "3"}}
Verdict(id, v) == [kind |-> "ok", fmt |-> "provider", obj |-> [k \in {id} |-> JInt(v)]]
BothVerdicts ==
    [kind |-> "ok", fmt |-> "provider",
     obj |-> [k \in {"1", "3"} |-> IF k = "1" THEN JInt(1) ELSE JInt(0)]]
SkippedLine == [kind |-> "no_response", fmt |-> "provider", obj |-> EmptyObj]
ScenarioResults ==
    {[known |-> TRUE, lines |-> ls] :
        ls \in {<<>>,
                <<BothVerdicts>>,
                <<Verdict("1", 1), Verdict("3", 0)>>,
                <<Verdict("3", 0), Verdict("1", 1)>>,
                <<Verdict("3", 0), SkippedLine, Verdict("1", 1)>>,
                <<Verdict("3", 1), Verdict("1", 1), Verdict("3", 0)>>,
                <<Verdict("2", 1), Verdict("3", 1)>>}}

InitOrder ==
    /\ Program(<<"parse_and_split">>)
    /\ inputExists = TRUE
    /\ requestFile = "written"
    /\ rawFile = "written"
    /\ svc = "none"
    /\ NoCalls
    /\ rawText \in ScenarioResults
    /\ FreshRecon
    /\ NoBuild
    /\ inputFile \in FilesOver(ScenarioLines)
    /\ chunk_size = DefaultChunk
    /\ OneObject(ValidatorInit(0).job_id)

SpecOrder == InitOrder /\ [][NextReconcile]_vars

\* =================================================================== claims
\* The reconciliation pass has opened its streams (merging, or past it).
Merging == pc = "ps_merge" \/ ret["parse_and_split"] # "unset"
MergeDone == ret["parse_and_split"] = "None"
Records(read) == {i \in 1..Len(read) : read[i].kind = "record"}
IdOf(l) == PyStr(json_loads(l)["id"])
UniqueIds(read) ==
    \A i, j \in Records(read) : IdOf(read[i]) = IdOf(read[j]) => i = j
Occurrences(stream, id) == Cardinality({j \in 1..Len(stream) : IdOf(stream[j]) = id})

\* C1: after the merge phase over N well-formed records with unique ids, the
\* accepted and rejected streams together hold N records and every record's id
\* occurs exactly once in the two streams taken together.
C1_Partition ==
    (MergeDone /\ UniqueIds(inputRead)) =>
        /\ Len(valid_out) + Len(invalid_out) = Len(inputRead)
        /\ \A i \in 1..Len(inputRead) :
              Occurrences(valid_out, IdOf(inputRead[i]))
                  + Occurrences(invalid_out, IdOf(inputRead[i])) = 1

C1_Witness ==
    /\ MergeDone /\ UniqueIds(inputRead)
    /\ Len(inputRead) = 2 /\ Len(valid_out) = 1 /\ Len(invalid_out) = 1
    /\ \E i \in 1..2 : IdOf(inputRead[i]) \notin DOMAIN validation_map

\* A record of the rejected stream made from bundle b and carrying the tag.
TaggedCopy(o, b, tag) ==
    /\ DOMAIN o = DOMAIN b \cup {"validation_status"}
    /\ o["validation_status"] = JStr(tag)
    /\ \A f \in DOMAIN b \ {"validation_status"} : o[f] = b[f]

MissingRejectedAs(tag) ==
    Merging =>
        \A i \in Records(inputRead) :
            IdOf(inputRead[i]) \notin DOMAIN validation_map =>
                /\ \E j \in 1..Len(invalid_out) :
                      TaggedCopy(json_loads(invalid_out[j]), json_loads(inputRead[i]), tag)
                /\ Occurrences(valid_out, IdOf(inputRead[i])) = 0

\* C2 as amended: a record whose id (as a string) is absent from the decision
\* mapping is written to the rejected stream with validation_status
\* "LLM_MISSED", and never to the accepted stream.
C2_MissingRejected == MissingRejectedAs("LLM_MISSED")

\* C2 as stated: the tag is "MISSING_DECISION".
C2_Original == MissingRejectedAs("MISSING_DECISION")

C2_Witness ==
    /\ MergeDone
    /\ validation_map # EmptyObj
    /\ \E i \in Records(inputRead) : IdOf(inputRead[i]) \notin DOMAIN validation_map

AcceptedOnlyOn(verdicts) ==
    Merging =>
        \A j \in 1..Len(valid_out) :
            /\ IdOf(valid_out[j]) \in DOMAIN validation_map
            /\ validation_map[IdOf(valid_out[j])] \in verdicts

\* C3 as amended: a record is in the accepted stream only if the decision
\* mapping holds for its id a value Python's == finds equal to 1 (the integer
\* 1, the float 1.0 or the boolean true); a record whose id is absent or maps
\* to 0, a string, null or a nested object is never accepted.
C3_AcceptedOnlyOnAccept == AcceptedOnlyOn({JInt(1), JOne, JTrue})

\* C3 as stated: only the accept value 1 itself lets a record through.
C3_Original == AcceptedOnlyOn({JInt(1)})

C3_Witness ==
    /\ MergeDone
    /\ Len(valid_out) = 1 /\ Len(invalid_out) = 1
    /\ validation_map[IdOf(valid_out[1])] = JTrue
    /\ IdOf(invalid_out[1]) \in DOMAIN validation_map
    /\ validation_map[IdOf(invalid_out[1])] \in {JStr("1"), JNull, JNested}

\* C4: a record whose id maps to the accept verdict 1 is in the accepted
\* stream as the very line read from the input, and every line of the
\* accepted stream is an input line, unchanged.
C4_AcceptedVerbatim ==
    Merging =>
        /\ \A i \in Records(inputRead) :
              (/\ IdOf(inputRead[i]) \in DOMAIN validation_map
               /\ validation_map[IdOf(inputRead[i])] = JInt(1))
              => \E j \in 1..Len(valid_out) : valid_out[j] = inputRead[i]
        /\ \A j \in 1..Len(valid_out) :
              \E i \in Records(inputRead) : valid_out[j] = inputRead[i]

C4_Witness ==
    /\ MergeDone
    /\ \E j \in 1..Len(valid_out) :
          /\ valid_out[j].fmt = "spaced"
          /\ "validation_status" \notin DOMAIN json_loads(valid_out[j])
          /\ validation_map[IdOf(valid_out[j])] = JInt(1)

ModelRejectedAs(tag) ==
    Merging =>
        \A i \in Records(inputRead) :
            (/\ IdOf(inputRead[i]) \in DOMAIN validation_map
             /\ validation_map[IdOf(inputRead[i])] = JInt(0))
            => \E j \in 1..Len(invalid_out) :
                  TaggedCopy(json_loads(invalid_out[j]), json_loads(inputRead[i]), tag)

\* C5 as amended: a record whose id maps to the reject verdict 0 is written to
\* the rejected stream as the original record with validation_status set to
\* "LLM_REJECTED" (added, or overwritten when the record already has the
\* field) and every other field unchanged.
C5_RejectedTagged == ModelRejectedAs("LLM_REJECTED")

\* C5 as stated: the tag is "REJECTED_BY_MODEL".
C5_Original == ModelRejectedAs("REJECTED_BY_MODEL")

C5_Witness ==
    /\ MergeDone
    /\ \E i \in Records(inputRead) :
          /\ IdOf(inputRead[i]) \in DOMAIN validation_map
          /\ validation_map[IdOf(inputRead[i])] = JInt(0)
          /\ "validation_status" \notin DOMAIN json_loads(inputRead[i])

\* C6: reading a malformed result line (not JSON, no nested response fields,
\* text payload not JSON or not an object) leaves the decision mapping as it
\* was and the parse loop running: the line is skipped, nothing is raised.
C6_MalformedLineSkipped ==
    [][(pc = "ps_parse" /\ rawLeft' = rawLeft - 1 /\ line'.kind \in MalformedKinds)
          => (validation_map' = validation_map /\ pc' = "ps_parse")]_vars

C6_Witness ==
    /\ pc = "ps_parse"
    /\ line.kind = "no_response"
    /\ validation_map # EmptyObj

Started(m) == \E i \in 1..Len(calls) : calls[i] = m
Running(m) == calls # <<>> /\ calls[Len(calls)] = m
Returned(m) == ret[m] # "unset"
TerminalNames == {"JOB_STATE_SUCCEEDED", "JOB_STATE_FAILED", "JOB_STATE_CANCELLED"}
FetchedIfSucceeded == downloads = (IF observed = "JOB_STATE_SUCCEEDED" THEN 1 ELSE 0)

\* C7 as amended: submit_and_wait issues one status query per in-progress
\* observation plus one, and none after a terminal state was observed, and
\* then fetches on SUCCEEDED.  wait_for_completion does the same up to its
\* return, but download_and_parse_results then issues one more status query of
\* its own before it fetches: k+2 queries over wait-then-fetch, one of them
\* after the terminal state was observed.
C7_StatusQueries ==
    /\ (Running("submit_and_wait") \/ Running("wait_for_completion")) =>
          /\ lateQueries = 0
          /\ queries = seenInProgress + (IF seenTerminal THEN 1 ELSE 0)
    /\ Returned("submit_and_wait") =>
          queries = seenInProgress + 1 /\ FetchedIfSucceeded
    /\ Returned("wait_for_completion") => queries >= seenInProgress + 1
    /\ Returned("download_and_parse_results") =>
          queries = seenInProgress + 2 /\ lateQueries = 1 /\ FetchedIfSucceeded

\* C7 as stated: in both lifecycles the whole wait-then-fetch sequence issues
\* k+1 status queries, none of them after a terminal state was observed.
C7_Original ==
    (Returned("submit_and_wait") \/ Returned("download_and_parse_results")) =>
        queries = seenInProgress + 1 /\ lateQueries = 0

C7_Witness ==
    /\ ret["download_and_parse_results"] = "raw_path"
    /\ seenInProgress = 3
    /\ queries = 5

\* C8: a download is made only after a status query returned SUCCEEDED; when
\* the job ended FAILED or CANCELLED nothing is downloaded and what the
\* method hands back differs from what it hands back on SUCCEEDED.
C8_DownloadOnlyOnSuccess ==
    /\ (downloads > 0 \/ pc \in {"sw_download", "dl_download"}) =>
          observed = "JOB_STATE_SUCCEEDED"
    /\ Returned("submit_and_wait") =>
          /\ observed \in TerminalNames
          /\ ret["submit_and_wait"] =
                (IF observed = "JOB_STATE_SUCCEEDED" THEN "True" ELSE "False")
          /\ FetchedIfSucceeded
    /\ Returned("wait_for_completion") =>
          /\ observed \in TerminalNames
          /\ ret["wait_for_completion"] = observed
    /\ Returned("download_and_parse_results") =>
          /\ ret["download_and_parse_results"] =
                (IF observed = "JOB_STATE_SUCCEEDED" THEN "raw_path" ELSE "None")
          /\ FetchedIfSucceeded

C8_Witness ==
    /\ ret["wait_for_completion"] = "JOB_STATE_CANCELLED"
    /\ ret["download_and_parse_results"] = "None"
    /\ seenInProgress > 0
    /\ downloads = 0

\* C9: after create_batch_file returned False nothing later is started and
\* nothing is uploaded; after submit_and_wait returned False the
\* reconciliation is not started and opens no output file.
C9_FailureStopsRun ==
    /\ ret["create_batch_file"] = "False" =>
          ~Started("submit_and_wait") /\ uploads = 0
    /\ ret["submit_and_wait"] = "False" =>
          ~Started("parse_and_split") /\ pc # "ps_merge"

InPollLoop == pc \in {"sw_poll", "sw_sleep", "wf_poll", "wf_sleep"}

\* C10: the poll loop is left only by a status query that returned SUCCEEDED,
\* FAILED or CANCELLED; a query that returned any other state name leaves the
\* loop sleeping; and once the provider reports a terminal state the loop is
\* eventually left.
C10_PollLoopExit ==
    /\ [][(InPollLoop /\ ~InPollLoop') =>
             (queries' = queries + 1 /\ observed' \in TerminalNames)]_vars
    /\ [][(InPollLoop /\ queries' = queries + 1 /\ observed' \notin TerminalNames) =>
             pc' \in {"sw_sleep", "wf_sleep"}]_vars
    /\ (InPollLoop /\ svc \in TerminalNames) ~> ~InPollLoop

C10_Witness ==
    /\ pc = "returned"
    /\ ret["wait_for_completion"] = "JOB_STATE_FAILED"
    /\ Running("wait_for_completion")
    /\ seenInProgress = 2

\* ------------------------------------------------------- the request builders
\* The position in lines of the k-th record line (k from 1).
RecordAt(lines, k) ==
    CHOOSE i \in Records(lines) : Cardinality({j \in Records(lines) : j <= i}) = k
HasId(l) == l.kind = "record" /\ "bundle_id" \in DOMAIN json_loads(l)
Distinct(seq) == \A a, b \in 1..Len(seq) : seq[a] = seq[b] => a = b

\* C11: a builder run over an input file that exists is never ended by a line
\* that is not JSON: the line is skipped, and a finished one-per-record run has
\* emitted one request for each well-formed record.
C11_MalformedNeverFatal ==
    /\ (inputExists /\ (Running("create_jsonl") \/ Running("create_batch_file")))
          => pc # "raised"
    /\ \A r \in 1..Len(emitted) :
          Len(emitted[r]) = Cardinality(Records(inputFile.lines))

\* C12: when the explicit ids of the input records are pairwise distinct, the
\* custom_ids a one-per-record run has emitted are pairwise distinct, records
\* that fall back to req_<index> included.
C12_CorrelationIdsDistinct ==
    (\A i, j \in 1..Len(inputFile.lines) :
        (/\ HasId(inputFile.lines[i]) /\ HasId(inputFile.lines[j])
         /\ json_loads(inputFile.lines[i])["bundle_id"]
               = json_loads(inputFile.lines[j])["bundle_id"]) => i = j)
    => \A r \in 1..Len(emitted) : Distinct(emitted[r])

\* C13: in the one-per-record builder the requests written so far are those of
\* the record lines read so far, in order, and the custom_id of each is the
\* record's bundle_id when it has one and otherwise req_<i>, with i the
\* 0-based position of the record's line in the input file (lines that were
\* skipped are counted).
C13_CorrelationIdDerivation ==
    pc = "cj_read" =>
        LET lines == SubSeq(inputFile.lines, 1, index)
        IN  /\ Len(requests) = Cardinality(Records(lines))
            /\ \A k \in 1..Len(requests) :
                  LET i == RecordAt(lines, k)
                      bundle == json_loads(lines[i])
                  IN  requests[k].custom_id =
                         (IF HasId(lines[i]) THEN bundle["bundle_id"]
                          ELSE JStr(ReqName(i - 1)))

C13_Witness ==
    /\ pc = "cj_read"
    /\ index = 3
    /\ inputFile.lines[1].kind = "not_json"
    /\ HasId(inputFile.lines[2])
    /\ CustomIds(requests) = <<JStr("b1"), JStr("req_2")>>

\* C14: the job objects two independent processes construct have distinct job
\* ids and write no file in common, whatever the second each is constructed in.
C14_JobsIsolated ==
    \A p, q \in Procs :
        (p # q /\ made[p] # NoJob /\ made[q] # NoJob) =>
            /\ made[p].job_id # made[q].job_id
            /\ made[p].files \cap made[q].files = {}

\* C15: the raw results file holds the bytes the download returned, from the
\* write on and whatever the pass over it does later; no line of it is read
\* before it is written, and nothing is written to it without a download.
C15_RawWrittenFirst ==
    /\ downloads = 0 => rawFile = "absent"
    /\ downloads > 0 => rawFile = downloaded /\ downloaded \in Blobs
    /\ (line # NoLine \/ pc \in {"ps_parse", "ps_open_io", "ps_merge"}
           \/ Returned("parse_and_split"))
          => downloads = 1
    /\ ret["download_and_parse_results"] = "raw_path" => downloads = 1

C15_Witness ==
    /\ pc = "raised"
    /\ Running("parse_and_split")
    /\ line.kind = "blank"
    /\ validation_map # EmptyObj
    /\ rawFile = "results_b"

\* C16: a submission makes at most one upload call and at most one job
\* creation call, the creation only after the upload returned; when either
\* call fails the exception leaves the method: no job exists, no handle is
\* returned, no status query is made, and a file already uploaded stays with
\* the provider.
C16_SubmitOnce ==
    /\ uploadCalls <= 1 /\ createCalls <= 1
    /\ uploads <= uploadCalls /\ createCalls <= uploads
    /\ (uploadCalls = 1 /\ uploads = 0) => pc = "raised" /\ createCalls = 0
    /\ (createCalls = 1 /\ svc = "none") => pc = "raised" /\ uploads = 1
    /\ svc = "none" =>
          /\ queries = 0
          /\ ~Returned("submit_job")
          /\ ~Returned("submit_and_wait")

C16_Witness ==
    /\ pc = "raised"
    /\ Running("submit_job")
    /\ createCalls = 1 /\ uploads = 1
    /\ svc = "none"

\* C17: two runs of the one-per-record builder over the same input file, by
\* two job objects, emit the same sequence of custom_ids.
C17_SameIdsOnRerun == Len(emitted) = 2 => emitted[1] = emitted[2]

C17_Witness ==
    /\ Len(emitted) = 2
    /\ job_id.t = 2
    /\ emitted[2] = <<JStr("b2"), JStr("req_1"), JStr("req_2")>>

\* The chunk loop has written its last request.
ChunksDone == pc = "cb_write" /\ index >= Len(all_bundles)

\* ceil(N/C) requests; the j-th loaded record is the one referenced at place
\* (j-1) mod C of request (j-1) div C, so every record is in one request, a
\* request holds C records at most and the input order is kept.
ChunkLayout ==
    LET N == Len(all_bundles)
        C == chunk_size
    IN  /\ Len(requests) = (N + C - 1) \div C
        /\ \A k \in 1..Len(requests) :
              Len(requests[k].body) = (IF k * C <= N THEN C ELSE N - (k - 1) * C)
        /\ \A j \in 1..N :
              requests[((j - 1) \div C) + 1].body[((j - 1) % C) + 1] = all_bundles[j]["id"]

\* C18 as amended: in chunked mode N loaded records and chunk size C give
\* ceil(N/C) requests, every record is referenced in exactly one request, each
\* request references at most C records in input order, and the custom_id of
\* the k-th request (k from 0) is chunk_<k*C>, the offset of its first record;
\* the custom_ids are pairwise distinct.
C18_Chunked ==
    ChunksDone =>
        /\ ChunkLayout
        /\ \A k \in 1..Len(requests) :
              requests[k].custom_id = JStr(ChunkName((k - 1) * chunk_size))
        /\ Distinct(CustomIds(requests))

\* C18 as stated: the custom_id of the k-th request is the chunk index k.
C18_Original ==
    ChunksDone =>
        /\ ChunkLayout
        /\ \A k \in 1..Len(requests) : requests[k].custom_id = JStr(ChunkName(k - 1))
        /\ Distinct(CustomIds(requests))

C18_Witness ==
    /\ ChunksDone
    /\ chunk_size = 2
    /\ Len(all_bundles) = 3
    /\ CustomIds(requests) = <<JStr("chunk_0"), JStr("chunk_2")>>

\* C19: the decision mapping is empty when the parse loop starts; a
\* well-formed result line sets each of its sub-ids, as a string, to the
\* line's verdict, over whatever an earlier line had set, and leaves the other
\* keys alone; no other step changes the mapping.
C19_DecisionMapping ==
    [][/\ (pc = "ps_open_raw" /\ pc' = "ps_parse") => validation_map' = EmptyObj
       /\ (pc = "ps_parse" /\ rawLeft' = rawLeft - 1 /\ line'.kind = "ok") =>
             /\ DOMAIN validation_map' = DOMAIN validation_map \cup DOMAIN line'.obj
             /\ \A k \in DOMAIN line'.obj : validation_map'[k] = line'.obj[k]
             /\ \A k \in DOMAIN validation_map \ DOMAIN line'.obj :
                   validation_map'[k] = validation_map[k]
       /\ (pc # "ps_open_raw" /\ ~(pc = "ps_parse" /\ rawLeft' = rawLeft - 1)) =>
             validation_map' = validation_map]_vars

C19_Witness ==
    /\ pc = "ps_open_io"
    /\ line.kind = "ok"
    /\ DOMAIN line.obj = {"1"}
    /\ DOMAIN validation_map = {"1", "2"}
    /\ validation_map["1"] = JInt(0)

Tagged(stream, tag) ==
    Cardinality({j \in 1..Len(stream) :
                    json_loads(stream[j])["validation_status"] = JStr(tag)})

\* C20 as amended: the summary reports two counts: the number of records
\* written to the accepted stream, and the number written to the rejected
\* stream, which is the records tagged LLM_REJECTED and the records tagged
\* LLM_MISSED together; no count of the missing records alone is reported.
C20_SummaryCounts ==
    MergeDone =>
        /\ DOMAIN summary = {"valid", "invalid"}
        /\ summary.valid = Len(valid_out)
        /\ summary.invalid = Len(invalid_out)
        /\ summary.invalid =
              Tagged(invalid_out, "LLM_REJECTED") + Tagged(invalid_out, "LLM_MISSED")

\* C20 as stated: three counts are reported, of the accepted, the rejected and
\* the missing records, each the number of records written with that status.
C20_Original ==
    MergeDone =>
        \E a, r, m \in DOMAIN summary :
            /\ a # r /\ a # m /\ r # m
            /\ summary[a] = Len(valid_out)
            /\ summary[r] = Tagged(invalid_out, "LLM_REJECTED")
            /\ summary[m] = Tagged(invalid_out, "LLM_MISSED")

C20_Witness ==
    /\ MergeDone
    /\ summary = [valid |-> 0, invalid |-> 2]
    /\ Tagged(invalid_out, "LLM_REJECTED") = 1
    /\ Tagged(invalid_out, "LLM_MISSED") = 1

\* The k-th smallest member of a set of positions (k from 1), and the
\* members of seq at the positions of S, in order.
SelectAt(S, k) == CHOOSE i \in S : Cardinality({j \in S : j <= i}) = k
Filter(seq, S) == [k \in 1..Cardinality(S) |-> seq[SelectAt(S, k)]]
Ids(stream) == [k \in 1..Len(stream) |-> IdOf(stream[k])]

\* C21: each output stream holds its records in the order of the input: the
\* ids of the input lines read split, by position, into the ids of the
\* accepted stream and the ids of the rejected stream, each in input order,
\* whatever the order of the verdicts in the raw results file.  For input ids
\* "1", "2", "3" and the mapping {"1": 1, "3": 0} the accepted stream is
\* ["1"] and the rejected stream is ["2", "3"].
C21_InputOrderKept ==
    /\ (Merging /\ pc # "raised") =>
          \E A \in SUBSET (1..Len(inputRead)) :
             /\ Ids(valid_out) = Filter(Ids(inputRead), A)
             /\ Ids(invalid_out) = Filter(Ids(inputRead), (1..Len(inputRead)) \ A)
    /\ (/\ MergeDone
        /\ Ids(inputRead) = <<"1", "2", "3">>
        /\ validation_map = BothVerdicts.obj)
          => Ids(valid_out) = <<"1">> /\ Ids(invalid_out) = <<"2", "3">>

C21_Witness ==
    /\ MergeDone
    /\ rawText.lines = <<Verdict("3", 0), SkippedLine, Verdict("1", 1)>>
    /\ Ids(inputRead) = <<"1", "2", "3">>
    /\ Ids(valid_out) = <<"1">>
    /\ Ids(invalid_out) = <<"2", "3">>

\* The ids the requests of the request file refer to, request by request.
RequestedIds ==
    UNION {{PyStr(requests[k].body[j]) : j \in 1..Len(requests[k].body)} :
              k \in 1..Len(requests)}

\* C22: on an input file create_batch_file returned True for, the merge loop
\* of parse_and_split reads the file to its end without raising, and the
\* records it has written to the two streams are those the requests refer to.
C22_BuilderReconcilerAgree ==
    ret["create_batch_file"] = "True" =>
        /\ ~(pc = "raised" /\ inputRead # <<>>)
        /\ MergeDone =>
              /\ {IdOf(valid_out[k]) : k \in 1..Len(valid_out)}
                    \cup {IdOf(invalid_out[k]) : k \in 1..Len(invalid_out)} = RequestedIds
              /\ Len(valid_out) + Len(invalid_out)
                    = Cardinality(Records(inputFile.lines))
====
